---- MODULE Spec2Model ----
(***************************************************************************)
(* A model of package fox, a client of the Twilio programmable fax API.    *)
(*                                                                         *)
(* The state is the package-level DefaultSendOpts and the SendOpts values  *)
(* callers allocate (heap), one Client (c) and, per caller, the position   *)
(* of the caller's current operation (call): idle, blocked in              *)
(* HTTPClient.Do with the request it built, or returned.                   *)
(*                                                                         *)
(* Go strings are TLA+ strings; a string used as a path parameter is kept  *)
(* as the sequence of its "/"-separated segments ("" is << >>, "a/b" is    *)
(* <<"a", "b">>), which is what path.Join and path.Clean work on.          *)
(* A response body is kept as the JSON document it holds (JSON below).     *)
(***************************************************************************)
EXTENDS Integers, Sequences, FiniteSets, TLC

VARIABLES heap, c, call

vars == <<heap, c, call>>

(***************************************************************************)
(* Bounds of the model.                                                    *)
(***************************************************************************)
\* longest variadic argument list (sendOpts ...*SendOpts) a caller passes
MaxVarArgs == 1
\* largest TTLMinutes a caller sets (the smallest is -1)
MaxTTL == 1

(***************************************************************************)
(* Package constants and variables.                                        *)
(***************************************************************************)
scheme == "https"
host == "fax.twilio.com"
version == "v1"
endpoint == "Faxes"

StatusOK == 200
StatusCreated == 201

QualityStandard == 0
QualityFine == 1
QualitySuperfine == 2

\* qualityType.String
QualityString(qt) ==
    CASE qt = QualityStandard -> "standard"
      [] qt = QualityFine -> "fine"
      [] qt = QualitySuperfine -> "superfine"
      [] OTHER -> ""

(***************************************************************************)
(* Errors.  A Go error value is a record; NoErr is the nil error.          *)
(***************************************************************************)
NoErr == [kind |-> "nil"]
Sentinel(name) == [kind |-> "sentinel", name |-> name]
ErrNotAuthenticated == Sentinel("fox: account SID and/or auth token not specified")
ErrInvalidFaxNumber == Sentinel("fox: fax number supplied is invalid")
ErrMissingSID == Sentinel("fox: SID is required")
ErrMissingToNumber == Sentinel("fox: to number is required")
ErrMissingFromNumber == Sentinel("fox: from number is required")
ErrMissingMediaURL == Sentinel("fox: media URL is required")

PreconditionErrors ==
    {ErrNotAuthenticated, ErrMissingSID, ErrMissingToNumber, ErrMissingFromNumber,
     ErrMissingMediaURL}

\* *ErrorResponse used as an error
ErrorResponse(code, message, moreInfo, status) ==
    [kind |-> "ErrorResponse", Code |-> code, Message |-> message,
     MoreInfo |-> moreInfo, Status |-> status]

\* Error with the status and the code in each other's place
Error_CodeFirst(err) ==
    "fox: error " \o ToString(err.Code) \o " (Twilio error " \o ToString(err.Status)
        \o "): " \o err.Message

\* ErrorResponse.Error: fmt.Sprintf("fox: error %v (Twilio error %v): %s", ...)
Error(err) ==
    "fox: error " \o ToString(err.Status) \o " (Twilio error " \o ToString(err.Code)
        \o "): " \o err.Message

\* the errors of encoding/json
SyntaxError == [kind |-> "json", what |-> "SyntaxError"]
UnmarshalTypeError == [kind |-> "json", what |-> "UnmarshalTypeError"]
ParseError == [kind |-> "json", what |-> "time.ParseError"]

\* the errors of net/http: HTTPClient.Do failed, or reading res.Body failed
NetErrors == {[kind |-> "net", what |-> "dial tcp: connection refused"],
              [kind |-> "net", what |-> "Client.Timeout exceeded"]}
ReadError == [kind |-> "read", what |-> "unexpected EOF"]

(***************************************************************************)
(* JSON.  A body is the document its bytes hold: no bytes at all (empty),  *)
(* bytes that are no JSON (bad), null, an array, a string, or an object    *)
(* whose members are numbers (num, an integer; frac, any other number),    *)
(* strings, null or objects.  encoding/json is modelled by what            *)
(* json.Unmarshal does with such a document and a destination struct; it   *)
(* matches keys to the struct's json tags (the tables below), leaves a     *)
(* field at its zero value when the key is absent or null, and reports an  *)
(* UnmarshalTypeError when a member has another type than the field.       *)
(***************************************************************************)
JEmpty == [t |-> "empty"]
JBad == [t |-> "bad"]
JNull == [t |-> "null"]
JArr(a) == [t |-> "arr", a |-> a]
JNum(n) == [t |-> "num", n |-> n]
JFrac == [t |-> "frac"]
JStr(s) == [t |-> "str", s |-> s]
JObj(m) == [t |-> "obj", m |-> m]

\* time.Time as a UTC calendar instant; time.Time{} is the zero time
Date(y, mo, d, h, mi, sec) ==
    [year |-> y, month |-> mo, day |-> d, hour |-> h, minute |-> mi, second |-> sec]
ZeroTime == Date(1, 1, 1, 0, 0, 0)
IsZero(tm) == tm = ZeroTime

\* the RFC 3339 texts of the model and the instants they denote
RFC3339Table == {<<"0001-01-01T00:00:00Z", ZeroTime>>,
                 <<"2015-07-30T20:00:00Z", Date(2015, 7, 30, 20, 0, 0)>>,
                 <<"2017-04-01T00:00:00Z", Date(2017, 4, 1, 0, 0, 0)>>}

\* time.Parse(time.RFC3339, s)
ParseRFC3339(s) ==
    IF \E e \in RFC3339Table : e[1] = s
    THEN [ok |-> TRUE, v |-> (CHOOSE e \in RFC3339Table : e[1] = s)[2]]
    ELSE [ok |-> FALSE, v |-> ZeroTime]

\* Time.Format(time.RFC3339) of an instant of the table
FormatRFC3339(tm) == (CHOOSE e \in RFC3339Table : e[2] = tm)[1]

\* Absent taking only a missing member, not a null one, for absent
Absent_MissingOnly(m, k) == k \notin DOMAIN m

\* decoding member k of object m into a field of type int, string, time.Time
Absent(m, k) == k \notin DOMAIN m \/ m[k].t = "null"
IntField(m, k) ==
    IF Absent(m, k) THEN [ok |-> TRUE, v |-> 0]
    ELSE IF m[k].t = "num" THEN [ok |-> TRUE, v |-> m[k].n]
    ELSE [ok |-> FALSE, v |-> 0]
StrField(m, k) ==
    IF Absent(m, k) THEN [ok |-> TRUE, v |-> ""]
    ELSE IF m[k].t = "str" THEN [ok |-> TRUE, v |-> m[k].s]
    ELSE [ok |-> FALSE, v |-> ""]
TimeField(m, k) ==
    IF Absent(m, k) THEN [ok |-> TRUE, v |-> ZeroTime]
    ELSE IF m[k].t = "str" THEN ParseRFC3339(m[k].s)
    ELSE [ok |-> FALSE, v |-> ZeroTime]

\* type ErrorResponse and its json tags
ErrorResponseInts == [Code |-> "code", Status |-> "status"]
ErrorResponseStrings == [Message |-> "message", MoreInfo |-> "more_info"]
ZeroErrorResponse == ErrorResponse(0, "", "", 0)

\* json.Unmarshal(body, &errRes) with var errRes ErrorResponse
UnmarshalErrorResponse(body) ==
    CASE body.t \in {"empty", "bad"} -> [err |-> SyntaxError, v |-> ZeroErrorResponse]
      [] body.t = "null" -> [err |-> NoErr, v |-> ZeroErrorResponse]
      [] body.t = "obj" ->
           LET m == body.m
               ints == [f \in DOMAIN ErrorResponseInts |-> IntField(m, ErrorResponseInts[f])]
               strs == [f \in DOMAIN ErrorResponseStrings |->
                          StrField(m, ErrorResponseStrings[f])]
               ok == (\A f \in DOMAIN ints : ints[f].ok) /\ (\A f \in DOMAIN strs : strs[f].ok)
           IN [err |-> IF ok THEN NoErr ELSE UnmarshalTypeError,
               v |-> ErrorResponse(ints.Code.v, strs.Message.v, strs.MoreInfo.v,
                                   ints.Status.v)]
      [] OTHER -> [err |-> UnmarshalTypeError, v |-> ZeroErrorResponse]

\* type SendResponse and its json tags
SendResponseStrings ==
    [AccountSid |-> "account_sid", APIVersion |-> "api_version", Status |-> "status",
     SID |-> "sid", URL |-> "url", Direction |-> "direction", To |-> "to",
     From |-> "from", Quality |-> "quality", PriceUnit |-> "price_unit",
     Price |-> "price", MediaURL |-> "media_url"]
SendResponseInts == [Duration |-> "duration", NumPages |-> "num_pages"]
SendResponseTimes == [DateCreated |-> "date_created", DateUpdated |-> "date_updated"]

\* the member links of a fax object, decoded into struct { Media string }
LinksField(m) ==
    IF Absent(m, "links") THEN [ok |-> TRUE, v |-> [Media |-> ""]]
    ELSE IF m["links"].t = "obj"
         THEN LET f == StrField(m["links"].m, "media") IN [ok |-> f.ok, v |-> [Media |-> f.v]]
         ELSE [ok |-> FALSE, v |-> [Media |-> ""]]

\* decoding a JSON object into a SendResponse; the error is the one of the wrongly
\* typed member, else the one of the timestamp that is not RFC 3339
DecodeSendResponse(m) ==
    LET strs == [f \in DOMAIN SendResponseStrings |-> StrField(m, SendResponseStrings[f])]
        ints == [f \in DOMAIN SendResponseInts |-> IntField(m, SendResponseInts[f])]
        tms == [f \in DOMAIN SendResponseTimes |-> TimeField(m, SendResponseTimes[f])]
        lnk == LinksField(m)
        typed == /\ \A f \in DOMAIN strs : strs[f].ok
                 /\ \A f \in DOMAIN ints : ints[f].ok
                 /\ lnk.ok
                 /\ \A f \in DOMAIN tms : tms[f].ok \/ m[SendResponseTimes[f]].t = "str"
        timed == \A f \in DOMAIN tms : tms[f].ok
    IN [err |-> IF ~typed THEN UnmarshalTypeError
                ELSE IF ~timed THEN ParseError ELSE NoErr,
        v |-> [f \in DOMAIN strs |-> strs[f].v] @@ [f \in DOMAIN ints |-> ints[f].v]
              @@ [f \in DOMAIN tms |-> tms[f].v] @@ ("Links" :> lnk.v)]

ZeroSendResponse == DecodeSendResponse(<< >>).v

\* json.Unmarshal(body, &sr) with var sr SendResponse
UnmarshalSendResponse(body) ==
    CASE body.t \in {"empty", "bad"} -> [err |-> SyntaxError, v |-> ZeroSendResponse]
      [] body.t = "null" -> [err |-> NoErr, v |-> ZeroSendResponse]
      [] body.t = "obj" -> DecodeSendResponse(body.m)
      [] OTHER -> [err |-> UnmarshalTypeError, v |-> ZeroSendResponse]

\* type Meta, type ListResponse and their json tags
MetaStrings ==
    [FirstPageURL |-> "first_page_url", Key |-> "key", NextPageURL |-> "next_page_url",
     PreviousPageURL |-> "previous_page_url", URL |-> "url"]
MetaInts == [Page |-> "page", PageSize |-> "page_size"]

\* decoding a JSON object into a Meta
DecodeMeta(m) ==
    LET strs == [f \in DOMAIN MetaStrings |-> StrField(m, MetaStrings[f])]
        ints == [f \in DOMAIN MetaInts |-> IntField(m, MetaInts[f])]
    IN [ok |-> (\A f \in DOMAIN strs : strs[f].ok) /\ (\A f \in DOMAIN ints : ints[f].ok),
        v |-> [f \in DOMAIN strs |-> strs[f].v] @@ [f \in DOMAIN ints |-> ints[f].v]]

\* decoding one element of the member faxes
DecodeFax(e) ==
    CASE e.t = "null" -> [err |-> NoErr, v |-> ZeroSendResponse]
      [] e.t = "obj" -> DecodeSendResponse(e.m)
      [] OTHER -> [err |-> UnmarshalTypeError, v |-> ZeroSendResponse]

\* json.Unmarshal(body, &lr) with var lr ListResponse
UnmarshalListResponse(body) ==
    LET zero == [Faxes |-> << >>, Meta |-> DecodeMeta(<< >>).v] IN
    CASE body.t \in {"empty", "bad"} -> [err |-> SyntaxError, v |-> zero]
      [] body.t = "null" -> [err |-> NoErr, v |-> zero]
      [] body.t = "obj" ->
           LET m == body.m
               arr == IF Absent(m, "faxes") THEN [ok |-> TRUE, a |-> << >>]
                      ELSE IF m["faxes"].t = "arr" THEN [ok |-> TRUE, a |-> m["faxes"].a]
                      ELSE [ok |-> FALSE, a |-> << >>]
               faxes == [i \in 1..Len(arr.a) |-> DecodeFax(arr.a[i])]
               meta == IF Absent(m, "meta") THEN DecodeMeta(<< >>)
                       ELSE IF m["meta"].t = "obj" THEN DecodeMeta(m["meta"].m)
                       ELSE [ok |-> FALSE, v |-> DecodeMeta(<< >>).v]
               typed == /\ arr.ok
                        /\ meta.ok
                        /\ \A i \in 1..Len(faxes) : faxes[i].err # UnmarshalTypeError
           IN [err |-> IF ~typed THEN UnmarshalTypeError
                       ELSE IF \E i \in 1..Len(faxes) : faxes[i].err # NoErr
                            THEN ParseError ELSE NoErr,
               v |-> [Faxes |-> [i \in 1..Len(faxes) |-> faxes[i].v], Meta |-> meta.v]]
      [] OTHER -> [err |-> UnmarshalTypeError, v |-> zero]

(***************************************************************************)
(* net/url and path.                                                       *)
(***************************************************************************)
\* the strings of the model that url.QueryEscape changes, and their escaped forms
EscapeTable == {<<"+15558675310", "%2B15558675310">>,
                <<"+15017122661", "%2B15017122661">>,
                <<"https://www.twilio.com/docs/documents/25/justthefaxmaam.pdf",
                  "https%3A%2F%2Fwww.twilio.com%2Fdocs%2Fdocuments%2F25%2Fjustthefaxmaam.pdf">>,
                <<"https://cb.example/status", "https%3A%2F%2Fcb.example%2Fstatus">>,
                <<"2015-07-30T20:00:00Z", "2015-07-30T20%3A00%3A00Z">>,
                <<"2017-04-01T00:00:00Z", "2017-04-01T00%3A00%3A00Z">>}

\* url.QueryEscape
QueryEscape(str) ==
    IF \E e \in EscapeTable : e[1] = str
    THEN (CHOOSE e \in EscapeTable : e[1] = str)[2]
    ELSE str

\* url.Values{}: a map from key to the list of its values
EmptyValues == [k \in {} |-> << >>]

\* Values.Add
Add(data, key, value) ==
    IF key \in DOMAIN data
    THEN [data EXCEPT ![key] = Append(@, value)]
    ELSE data @@ (key :> <<value>>)

\* the keys the package writes, in the byte order Values.Encode sorts them by
SortedKeys ==
    <<"DateCreatedAfter", "DateCreatedOnOrBefore", "From", "MediaUrl", "Quality",
      "SipAuthPassword", "SipAuthUsername", "Status", "StatusCallback", "StoreMedia",
      "To", "Ttl">>

RECURSIVE EncodeFrom(_, _)
EncodeFrom(data, i) ==
    IF i > Len(SortedKeys) THEN << >>
    ELSE LET k == SortedKeys[i]
             here == IF k \in DOMAIN data
                     THEN [j \in 1..Len(data[k]) |-> <<k, QueryEscape(data[k][j])>>]
                     ELSE << >>
         IN here \o EncodeFrom(data, i + 1)

\* Values.Encode: the key=value pairs, sorted by key, each value escaped
Encode(data) == EncodeFrom(data, 1)

\* path.Clean of a relative path, given and returned as its segments
RECURSIVE CleanFrom(_, _, _)
CleanFrom(segs, i, out) ==
    IF i > Len(segs) THEN (IF out = << >> THEN <<".">> ELSE out)
    ELSE LET sg == segs[i] IN
         IF sg \in {"", "."} THEN CleanFrom(segs, i + 1, out)
         ELSE IF sg = ".."
              THEN IF out # << >> /\ out[Len(out)] # ".."
                   THEN CleanFrom(segs, i + 1, SubSeq(out, 1, Len(out) - 1))
                   ELSE CleanFrom(segs, i + 1, Append(out, sg))
              ELSE CleanFrom(segs, i + 1, Append(out, sg))
Clean(segs) == CleanFrom(segs, 1, << >>)

\* path.Join(a, b, cc): the non-empty elements joined by "/" and cleaned
Join(a, b, cc) == Clean(a \o b \o cc)

(***************************************************************************)
(* SendOpts and ListOpts.  A *SendOpts is an address of the heap or Nil.   *)
(***************************************************************************)
Nil == "nil"

SendOptsValue(q, pw, un, cb, sm, ttl) ==
    [Quality |-> q, SIPAuthPassword |-> pw, SIPAuthUsername |-> un,
     StatusCallback |-> cb, StoreMedia |-> sm, TTLMinutes |-> ttl]

\* the value the package variable DefaultSendOpts points to
DefaultSendOptsValue == SendOptsValue(QualityFine, "", "", "", TRUE, 0)

\* urlEncode adding Ttl for every TTLMinutes that is not negative
urlEncode_TtlNotNegative(so, data) ==
    LET d1 == Add(data, "Quality", QualityString(so.Quality))
        d2 == IF so.SIPAuthPassword # ""
              THEN Add(d1, "SipAuthPassword", so.SIPAuthPassword) ELSE d1
        d3 == IF so.SIPAuthUsername # ""
              THEN Add(d2, "SipAuthUsername", so.SIPAuthUsername) ELSE d2
        d4 == IF so.StatusCallback # ""
              THEN Add(d3, "StatusCallback", so.StatusCallback) ELSE d3
        d5 == Add(d4, "StoreMedia", IF so.StoreMedia THEN "true" ELSE "false")
    IN IF so.TTLMinutes >= 0 THEN Add(d5, "Ttl", ToString(so.TTLMinutes)) ELSE d5

\* urlEncode writing the SIP username under the name of the field
urlEncode_FieldNames(so, data) ==
    LET d1 == Add(data, "Quality", QualityString(so.Quality))
        d2 == IF so.SIPAuthPassword # ""
              THEN Add(d1, "SipAuthPassword", so.SIPAuthPassword) ELSE d1
        d3 == IF so.SIPAuthUsername # ""
              THEN Add(d2, "SIPAuthUsername", so.SIPAuthUsername) ELSE d2
        d4 == IF so.StatusCallback # ""
              THEN Add(d3, "StatusCallback", so.StatusCallback) ELSE d3
        d5 == Add(d4, "StoreMedia", IF so.StoreMedia THEN "true" ELSE "false")
    IN IF so.TTLMinutes > 0 THEN Add(d5, "Ttl", ToString(so.TTLMinutes)) ELSE d5

\* SendOpts.urlEncode, called on a non-nil receiver
urlEncode(so, data) ==
    LET d1 == Add(data, "Quality", QualityString(so.Quality))
        d2 == IF so.SIPAuthPassword # ""
              THEN Add(d1, "SipAuthPassword", so.SIPAuthPassword) ELSE d1
        d3 == IF so.SIPAuthUsername # ""
              THEN Add(d2, "SipAuthUsername", so.SIPAuthUsername) ELSE d2
        d4 == IF so.StatusCallback # ""
              THEN Add(d3, "StatusCallback", so.StatusCallback) ELSE d3
        d5 == Add(d4, "StoreMedia", IF so.StoreMedia THEN "true" ELSE "false")
    IN IF so.TTLMinutes > 0 THEN Add(d5, "Ttl", ToString(so.TTLMinutes)) ELSE d5

ListOptsValue(after, before, from, to) ==
    [DateCreatedAfter |-> after, DateCreatedOnOrBefore |-> before, From |-> from, To |-> to]

\* listUrlEncode writing the date filters also when they are the zero time
listUrlEncode_AlwaysDates(lo, data) ==
    LET d1 == Add(data, "DateCreatedAfter", FormatRFC3339(lo.DateCreatedAfter))
        d2 == Add(d1, "DateCreatedOnOrBefore", FormatRFC3339(lo.DateCreatedOnOrBefore))
        d3 == IF lo.From # "" THEN Add(d2, "From", lo.From) ELSE d2
    IN IF lo.To # "" THEN Add(d3, "To", lo.To) ELSE d3

\* ListOpts.urlEncode
listUrlEncode(lo, data) ==
    LET d1 == IF ~IsZero(lo.DateCreatedAfter)
              THEN Add(data, "DateCreatedAfter", FormatRFC3339(lo.DateCreatedAfter))
              ELSE data
        d2 == IF ~IsZero(lo.DateCreatedOnOrBefore)
              THEN Add(d1, "DateCreatedOnOrBefore", FormatRFC3339(lo.DateCreatedOnOrBefore))
              ELSE d1
        d3 == IF lo.From # "" THEN Add(d2, "From", lo.From) ELSE d2
    IN IF lo.To # "" THEN Add(d3, "To", lo.To) ELSE d3

(***************************************************************************)
(* The client.                                                             *)
(***************************************************************************)
\* NewClient taking the default options whatever it is given
NewClient_IgnoresOptions(accountSID, authToken, sendOpts) ==
    [HTTPClient |-> "http.Client",
     SendOpts |-> "DefaultSendOpts",
     accountSID |-> accountSID,
     authToken |-> authToken]

\* NewClient giving a client built without options a SendOpts other than the one
\* DefaultSendOpts points to
NewClient_OwnDefault(accountSID, authToken, sendOpts) ==
    [HTTPClient |-> "http.Client",
     SendOpts |-> IF Len(sendOpts) > 0 THEN sendOpts[1] ELSE "optsA",
     accountSID |-> accountSID,
     authToken |-> authToken]

\* NewClient(accountSID, authToken, sendOpts...): sendOpts is the variadic list
NewClient(accountSID, authToken, sendOpts) ==
    [HTTPClient |-> "http.Client",
     SendOpts |-> IF Len(sendOpts) > 0 THEN sendOpts[1] ELSE "DefaultSendOpts",
     accountSID |-> accountSID,
     authToken |-> authToken]

URL(sch, hst, pth) == [Scheme |-> sch, Host |-> hst, Path |-> pth]

\* URL.String of a URL with a host and a relative path: each segment after a "/"
RECURSIVE PathString(_)
PathString(segs) ==
    IF segs = << >> THEN "" ELSE "/" \o Head(segs) \o PathString(Tail(segs))
String(u) == u.Scheme \o "://" \o u.Host \o PathString(u.Path)

\* buildURL appending "/" and the parameter to the collection path, without path.Join
buildURL_Appended(param) ==
    URL(scheme, host, <<version, endpoint>> \o (IF param = << >> THEN <<"">> ELSE param))

\* Client.buildURL
buildURL(param) == URL(scheme, host, Join(<<version>>, <<endpoint>>, param))

\* http.NewRequest: a request without credentials yet.  It fails only for a method
\* or a URL text that is not valid; the methods are constants and URL.String escapes
\* the path, so the error returns that follow it in Get and Send are never taken.
NoAuth == [set |-> FALSE, username |-> "", password |-> ""]
NoForm == [isNil |-> TRUE]
Form(data) == [isNil |-> FALSE, pairs |-> Encode(data)]
NewRequest(method, u, query, body) ==
    [isNil |-> FALSE, Method |-> method, URL |-> u, RawQuery |-> query, Body |-> body,
     ContentType |-> "", Auth |-> NoAuth]
NoRequest == [isNil |-> TRUE]

\* Request.Header.Set("Content-Type", v) and Request.SetBasicAuth
SetContentType(r, v) == [r EXCEPT !.ContentType = v]
SetBasicAuth(r, username, password) ==
    [r EXCEPT !.Auth = [set |-> TRUE, username |-> username, password |-> password]]

FormContentType == "application/x-www-form-urlencoded; param=value"

\* what a call returns: a pointer to a resource (or nil) and an error, or a panic
NilValue == [isNil |-> TRUE]
Ptr(v) == [isNil |-> FALSE, v |-> v]
Return(val, err) == [kind |-> "return", val |-> val, err |-> err]
Panic == [kind |-> "panic", what |-> "invalid memory address or nil pointer dereference"]
NoReturn == [kind |-> "none"]

\* the credential check refusing only a client with neither credential
NotAuthenticated_BothEmpty(cl) == cl.accountSID = "" /\ cl.authToken = ""

\* the credential check that opens Get, Send, List and Cancel
NotAuthenticated(cl) == cl.accountSID = "" \/ cl.authToken = ""

\* GetPre without the check of the SID
GetPre_NoSIDCheck(cl, sid) ==
    IF NotAuthenticated(cl) THEN ErrNotAuthenticated ELSE NoErr

\* Client.Get up to the request: the precondition error, or NoErr
GetPre(cl, sid) ==
    IF NotAuthenticated(cl) THEN ErrNotAuthenticated
    ELSE IF sid = << >> THEN ErrMissingSID
    ELSE NoErr

\* Client.Get: the request it builds
GetRequest(sid) == NewRequest("GET", buildURL(sid), << >>, NoForm)

\* SendPre with the to number checked before the credentials
SendPre_ToFirst(cl, to, from, mediaURL) ==
    IF to = "" THEN ErrMissingToNumber
    ELSE IF NotAuthenticated(cl) THEN ErrNotAuthenticated
    ELSE IF from = "" THEN ErrMissingFromNumber
    ELSE IF mediaURL = "" THEN ErrMissingMediaURL
    ELSE NoErr

\* SendPre with the media URL checked before the numbers
SendPre_MediaFirst(cl, to, from, mediaURL) ==
    IF NotAuthenticated(cl) THEN ErrNotAuthenticated
    ELSE IF mediaURL = "" THEN ErrMissingMediaURL
    ELSE IF to = "" THEN ErrMissingToNumber
    ELSE IF from = "" THEN ErrMissingFromNumber
    ELSE NoErr

\* Client.Send up to the request: the precondition error, or NoErr
SendPre(cl, to, from, mediaURL) ==
    IF NotAuthenticated(cl) THEN ErrNotAuthenticated
    ELSE IF to = "" THEN ErrMissingToNumber
    ELSE IF from = "" THEN ErrMissingFromNumber
    ELSE IF mediaURL = "" THEN ErrMissingMediaURL
    ELSE NoErr

\* SendOptsOf taking the options of the client whatever the call is given
SendOptsOf_DefaultWins(cl, sendOpts) == cl.SendOpts

\* Client.Send: the options of this call, a pointer
SendOptsOf(cl, sendOpts) == IF Len(sendOpts) > 0 THEN sendOpts[1] ELSE cl.SendOpts

\* SendClient keeping the options of the call in the client
SendClient_Stored(cl, opts) == [cl EXCEPT !.SendOpts = opts]

\* Client.Send: the client after the options of the call were chosen; opts is a
\* local variable and no field of c is assigned
SendClient(cl, opts) == cl

\* urlEncodeReceiver setting a negative TTLMinutes of the receiver to zero
urlEncodeReceiver_ClampsTTL(hp, opts) ==
    [hp EXCEPT ![opts].TTLMinutes = IF @ < 0 THEN 0 ELSE @]

\* SendOpts.urlEncode: the SendOpts objects after opts.urlEncode(data); the method
\* reads its receiver and writes to data alone
urlEncodeReceiver(hp, opts) == hp

\* Client.Send: the form data, for a non-nil opts
SendData(hp, to, from, mediaURL, opts) ==
    urlEncode(hp[opts],
              Add(Add(Add(EmptyValues, "To", to), "From", from), "MediaUrl", mediaURL))

\* SendRequest with the media type alone as Content-Type
SendRequest_PlainContentType(hp, to, from, mediaURL, opts) ==
    SetContentType(
        NewRequest("POST", buildURL(<< >>), << >>, Form(SendData(hp, to, from, mediaURL, opts))),
        "application/x-www-form-urlencoded")

\* Client.Send: the request it builds
SendRequest(hp, to, from, mediaURL, opts) ==
    SetContentType(
        NewRequest("POST", buildURL(<< >>), << >>, Form(SendData(hp, to, from, mediaURL, opts))),
        FormContentType)

\* Client.List up to the request
ListPre(cl) == IF NotAuthenticated(cl) THEN ErrNotAuthenticated ELSE NoErr

\* Client.List: the request it builds; listOpts is the variadic list of values
ListRequest(listOpts) ==
    NewRequest("GET", buildURL(<< >>),
               IF Len(listOpts) > 0 THEN Encode(listUrlEncode(listOpts[1], EmptyValues))
               ELSE << >>,
               NoForm)

\* Client.Cancel up to the request
CancelPre(cl, sid) ==
    IF NotAuthenticated(cl) THEN ErrNotAuthenticated
    ELSE IF sid = << >> THEN ErrMissingSID
    ELSE NoErr

\* CancelRequest deleting the resource instead of posting the new status
CancelRequest_Delete(sid) == NewRequest("DELETE", buildURL(sid), << >>, NoForm)

\* Client.Cancel: the request it builds
CancelRequest(sid) ==
    SetContentType(
        NewRequest("POST", buildURL(sid), << >>, Form(Add(EmptyValues, "Status", "canceled"))),
        FormContentType)

(***************************************************************************)
(* Client.do.  The transport (HTTPClient.Do and the reading of res.Body)   *)
(* is the environment: it fails (error), answers with a status and a body  *)
(* (response), or answers with a status and breaks while the body is read  *)
(* (truncated).                                                            *)
(***************************************************************************)
\* Client.do: the request as HTTPClient.Do receives it
doRequest(cl, r) == SetBasicAuth(r, cl.accountSID, cl.authToken)

\* IsSuccess taking every 2xx status for a success
IsSuccess_Any2xx(StatusCode) == StatusCode \in 200..299

\* Client.do: the status codes under which the body is the payload
IsSuccess(StatusCode) == StatusCode = StatusOK \/ StatusCode = StatusCreated

NilBytes == [isNil |-> TRUE]
Bytes(b) == [isNil |-> FALSE, b |-> b]

\* do returning the ErrorResponse also when the error body did not decode
do_DecodeErrorMasked(cl, r, out) ==
    LET res ==
        IF out.kind = "error"
        THEN [body |-> NilBytes, err |-> out.err, trace |-> << >>]
        ELSE IF out.kind = "truncated"
        THEN [body |-> NilBytes, err |-> ReadError,
              trace |-> <<"ioutil.ReadAll", "Body.Close">>]
        ELSE IF ~IsSuccess(out.StatusCode)
        THEN [body |-> NilBytes, err |-> UnmarshalErrorResponse(out.Body).v,
              trace |-> <<"ioutil.ReadAll", "json.Unmarshal", "Body.Close">>]
        ELSE [body |-> Bytes(out.Body), err |-> NoErr,
              trace |-> <<"ioutil.ReadAll", "Body.Close">>]
    IN [req |-> doRequest(cl, r), out |-> out, body |-> res.body, err |-> res.err,
        trace |-> <<"SetBasicAuth", "HTTPClient.Do">> \o res.trace]

\* do going on to read and decode a body after HTTPClient.Do failed
do_TransportErrorDecoded(cl, r, out) ==
    LET res ==
        IF out.kind \in {"error", "truncated"}
        THEN [body |-> NilBytes, err |-> UnmarshalErrorResponse(JEmpty).err,
              trace |-> <<"ioutil.ReadAll", "json.Unmarshal", "Body.Close">>]
        ELSE IF ~IsSuccess(out.StatusCode)
        THEN LET u == UnmarshalErrorResponse(out.Body) IN
             [body |-> NilBytes,
              err |-> IF u.err # NoErr THEN u.err ELSE u.v,
              trace |-> <<"ioutil.ReadAll", "json.Unmarshal", "Body.Close">>]
        ELSE [body |-> Bytes(out.Body), err |-> NoErr,
              trace |-> <<"ioutil.ReadAll", "Body.Close">>]
    IN [req |-> doRequest(cl, r), out |-> out, body |-> res.body, err |-> res.err,
        trace |-> <<"SetBasicAuth", "HTTPClient.Do">> \o res.trace]

\* do calling HTTPClient.Do a second time after it failed
do_RetryOnError(cl, r, out) ==
    LET res ==
        IF out.kind = "error"
        THEN [body |-> NilBytes, err |-> out.err, trace |-> <<"HTTPClient.Do">>]
        ELSE IF out.kind = "truncated"
        THEN [body |-> NilBytes, err |-> ReadError,
              trace |-> <<"ioutil.ReadAll", "Body.Close">>]
        ELSE IF ~IsSuccess(out.StatusCode)
        THEN LET u == UnmarshalErrorResponse(out.Body) IN
             [body |-> NilBytes,
              err |-> IF u.err # NoErr THEN u.err ELSE u.v,
              trace |-> <<"ioutil.ReadAll", "json.Unmarshal", "Body.Close">>]
        ELSE [body |-> Bytes(out.Body), err |-> NoErr,
              trace |-> <<"ioutil.ReadAll", "Body.Close">>]
    IN [req |-> doRequest(cl, r), out |-> out, body |-> res.body, err |-> res.err,
        trace |-> <<"SetBasicAuth", "HTTPClient.Do">> \o res.trace]

\* Client.do(r) when the transport does out: the request the transport received,
\* the body and error returned, and the calls made
do(cl, r, out) ==
    LET res ==
        IF out.kind = "error"
        THEN [body |-> NilBytes, err |-> out.err, trace |-> << >>]
        ELSE IF out.kind = "truncated"
        THEN [body |-> NilBytes, err |-> ReadError,
              trace |-> <<"ioutil.ReadAll", "Body.Close">>]
        ELSE IF ~IsSuccess(out.StatusCode)
        THEN LET u == UnmarshalErrorResponse(out.Body) IN
             [body |-> NilBytes,
              err |-> IF u.err # NoErr THEN u.err ELSE u.v,
              trace |-> <<"ioutil.ReadAll", "json.Unmarshal", "Body.Close">>]
        ELSE [body |-> Bytes(out.Body), err |-> NoErr,
              trace |-> <<"ioutil.ReadAll", "Body.Close">>]
    IN [req |-> doRequest(cl, r), out |-> out, body |-> res.body, err |-> res.err,
        trace |-> <<"SetBasicAuth", "HTTPClient.Do">> \o res.trace]

NoOutcome == [kind |-> "none"]

\* a call that returned (or panicked) before it built a request
Early(op, args, ret) ==
    [pc |-> "done", op |-> op, args |-> args, req |-> NoRequest, out |-> NoOutcome,
     trace |-> << >>, ret |-> ret]

\* a call that built a request, ran do (result d) and then made the calls in more
Completed(op, args, d, more, ret) ==
    [pc |-> "done", op |-> op, args |-> args, req |-> d.req, out |-> d.out,
     trace |-> <<"http.NewRequest">> \o d.trace \o more, ret |-> ret]

\* Resource returning the resource without looking at the decode error
Resource_DecodeErrorDropped(op, args, d) ==
    IF d.err # NoErr THEN Completed(op, args, d, << >>, Return(NilValue, d.err))
    ELSE Completed(op, args, d, <<"json.Unmarshal">>,
                   Return(Ptr(UnmarshalSendResponse(d.body.b).v), NoErr))

\* Resource returning the half-decoded resource together with the decode error
Resource_PartialWithError(op, args, d) ==
    IF d.err # NoErr THEN Completed(op, args, d, << >>, Return(NilValue, d.err))
    ELSE LET u == UnmarshalSendResponse(d.body.b) IN
         Completed(op, args, d, <<"json.Unmarshal">>, Return(Ptr(u.v), u.err))

\* the end of Client.Get and Client.Send: the result of do decoded as a SendResponse
Resource(op, args, d) ==
    IF d.err # NoErr THEN Completed(op, args, d, << >>, Return(NilValue, d.err))
    ELSE LET u == UnmarshalSendResponse(d.body.b) IN
         Completed(op, args, d, <<"json.Unmarshal">>,
                   IF u.err # NoErr THEN Return(NilValue, u.err)
                   ELSE Return(Ptr(u.v), NoErr))

\* c.do(r), called on its own as the package's tests do, when the transport does out
Do(cl, r, out) ==
    LET d == do(cl, r, out) IN
    [pc |-> "done", op |-> "do", args |-> [r |-> r], req |-> d.req, out |-> d.out,
     trace |-> d.trace, ret |-> Return(d.body, d.err)]

\* Client.Get(sid) when the transport, if called, does out
Get(cl, sid, out) ==
    LET args == [sid |-> sid]
        e == GetPre(cl, sid)
    IN IF e # NoErr THEN Early("Get", args, Return(NilValue, e))
       ELSE Resource("Get", args, do(cl, GetRequest(sid), out))

\* Send with the media URL checked after the request was sent
Send_MediaCheckedLate(cl, hp, to, from, mediaURL, sendOpts, out) ==
    LET args == [to |-> to, from |-> from, mediaURL |-> mediaURL, sendOpts |-> sendOpts]
        e == IF NotAuthenticated(cl) THEN ErrNotAuthenticated
             ELSE IF to = "" THEN ErrMissingToNumber
             ELSE IF from = "" THEN ErrMissingFromNumber
             ELSE NoErr
        opts == SendOptsOf(cl, sendOpts)
    IN IF e # NoErr THEN Early("Send", args, Return(NilValue, e))
       ELSE IF opts = Nil THEN Early("Send", args, Panic)
       ELSE LET d == do(cl, SendRequest(hp, to, from, mediaURL, opts), out) IN
            IF mediaURL = ""
            THEN Completed("Send", args, d, << >>, Return(NilValue, ErrMissingMediaURL))
            ELSE Resource("Send", args, d)

\* Client.Send(to, from, mediaURL, sendOpts...) when the transport, if called, does
\* out; a nil opts panics in opts.urlEncode, before the request is built
Send(cl, hp, to, from, mediaURL, sendOpts, out) ==
    LET args == [to |-> to, from |-> from, mediaURL |-> mediaURL, sendOpts |-> sendOpts]
        e == SendPre(cl, to, from, mediaURL)
        opts == SendOptsOf(cl, sendOpts)
    IN IF e # NoErr THEN Early("Send", args, Return(NilValue, e))
       ELSE IF opts = Nil THEN Early("Send", args, Panic)
       ELSE Resource("Send", args, do(cl, SendRequest(hp, to, from, mediaURL, opts), out))

\* Client.List(listOpts...) when the transport, if called, does out
List(cl, listOpts, out) ==
    LET args == [listOpts |-> listOpts]
        e == ListPre(cl)
    IN IF e # NoErr THEN Early("List", args, Return(NilValue, e))
       ELSE LET d == do(cl, ListRequest(listOpts), out) IN
            IF d.err # NoErr THEN Completed("List", args, d, << >>, Return(NilValue, d.err))
            ELSE LET u == UnmarshalListResponse(d.body.b) IN
                 Completed("List", args, d, <<"json.Unmarshal">>,
                           IF u.err # NoErr THEN Return(NilValue, u.err)
                           ELSE Return(Ptr(u.v), NoErr))

\* Client.Cancel(sid) when the transport, if called, does out: the error alone
Cancel(cl, sid, out) ==
    LET args == [sid |-> sid]
        e == CancelPre(cl, sid)
    IN IF e # NoErr THEN Early("Cancel", args, Return(NilValue, e))
       ELSE LET d == do(cl, CancelRequest(sid), out) IN
            Completed("Cancel", args, d, << >>, Return(NilValue, d.err))

\* a call of a function of the package that makes no request: its result is val
Local(op, args, val) ==
    [pc |-> "done", op |-> op, args |-> args, req |-> NoRequest, out |-> NoOutcome,
     trace |-> << >>, ret |-> Return(val, NoErr)]

\* in.urlEncode(data), called on its own as TestSendOpts_URLEncode does: the result
\* is data as the call leaves it
UrlEncode(so, data) == Local("urlEncode", [so |-> so, data |-> data], urlEncode(so, data))

\* lo.urlEncode(data) of a ListOpts: the result is data as the call leaves it
ListUrlEncode(lo, data) ==
    Local("ListOpts.urlEncode", [lo |-> lo, data |-> data], listUrlEncode(lo, data))

\* NewClient(accountSID, authToken, sendOpts...), called as TestNewClient does
New(accountSID, authToken, sendOpts) ==
    Local("NewClient",
          [accountSID |-> accountSID, authToken |-> authToken, sendOpts |-> sendOpts],
          Ptr(NewClient(accountSID, authToken, sendOpts)))

\* c.buildURL(param).String(), called as TestClient_buildURL does: the URL and its text
BuildURL(param) ==
    Local("buildURL", [param |-> param],
          [URL |-> buildURL(param), String |-> String(buildURL(param))])

(***************************************************************************)
(* The inputs of the model.                                                *)
(***************************************************************************)
\* the lists a caller passes for a variadic parameter whose elements are in S
VarArgs(S) == UNION {[1..n -> S] : n \in 0..MaxVarArgs}

AccountSIDs == {"", "ACXXXXXXXXXXXXXXXXXXXXXXXXXXXXXXXX"}
AuthTokens == {"", "ATXXXXXXXXXXXXXXXXXXXXXXXXXXXXXXXX"}
Tos == {"", "+15558675310"}
Froms == {"", "+15017122661"}
MediaURLs == {"", "https://www.twilio.com/docs/documents/25/justthefaxmaam.pdf"}
SIDs == {<< >>, <<"FXXXXXXXXXXXXXXXXXXXXXXXXXXXXXXXXX">>, <<".">>, <<"..">>,
         <<"FXXXXXXXXXXXXXXXXXXXXXXXXXXXXXXXXX", "Media">>}

\* the SendOpts objects: the package's default and one a caller allocates
OptsAddrs == {"DefaultSendOpts", "optsA"}
Pointers == OptsAddrs \cup {Nil}
CallerSendOpts ==
    {SendOptsValue(QualitySuperfine, "password", "username", "https://cb.example/status",
                   FALSE, MaxTTL),
     SendOptsValue(QualityStandard, "", "", "", FALSE, -1),
     SendOptsValue(3, "", "username", "", TRUE, 0)}

\* the SendOpts and ListOpts values the encoders are called with on their own
Qualities == {QualityStandard, QualityFine, QualitySuperfine, 3}
TTLs == -1..MaxTTL
AllSendOpts ==
    {SendOptsValue(q, pw, un, cb, sm, ttl) :
        q \in Qualities, pw \in {"", "password"}, un \in {"", "username"},
        cb \in {"", "https://cb.example/status"}, sm \in BOOLEAN, ttl \in TTLs}
Times == {ZeroTime, Date(2015, 7, 30, 20, 0, 0), Date(2017, 4, 1, 0, 0, 0)}
AllListOpts ==
    {ListOptsValue(after, before, from, to) :
        after \in Times, before \in Times, from \in Froms, to \in Tos}

\* the url.Values an encoder is handed: empty, the three entries Send writes first,
\* and one that holds option keys already
Accumulators ==
    {EmptyValues,
     Add(Add(Add(EmptyValues, "To", "+15558675310"), "From", "+15017122661"), "MediaUrl",
         "https://www.twilio.com/docs/documents/25/justthefaxmaam.pdf"),
     Add(Add(Add(EmptyValues, "Quality", "fine"), "Ttl", "5"), "From", "+15017122661")}

ListOptsValues ==
    {ListOptsValue(ZeroTime, ZeroTime, "", ""),
     ListOptsValue(Date(2015, 7, 30, 20, 0, 0), ZeroTime, "+15017122661", ""),
     ListOptsValue(ZeroTime, Date(2017, 4, 1, 0, 0, 0), "", "+15558675310")}

\* response bodies
errorResponseJSON ==
    JObj([code |-> JNum(1228), message |-> JStr("Twilio error message"),
          more_info |-> JStr("https://url/to/more/info"), status |-> JNum(404)])
Without(body, key) == JObj([k \in DOMAIN body.m \ {key} |-> body.m[k]])
With(body, key, value) == JObj([k \in DOMAIN body.m \ {key} |-> body.m[k]] @@ (key :> value))

sendResponseJSON ==
    JObj([account_sid |-> JStr("ACXXXXXXXXXXXXXXXXXXXXXXXXXXXXXXXX"),
          api_version |-> JStr("v1"),
          date_created |-> JStr("2015-07-30T20:00:00Z"),
          date_updated |-> JStr("2015-07-30T20:00:00Z"),
          direction |-> JStr("outbound"),
          from |-> JStr("+15017122661"),
          media_url |-> JStr("https://www.twilio.com/docs/documents/25/justthefaxmaam.pdf"),
          media_sid |-> JStr("MEXXXXXXXXXXXXXXXXXXXXXXXXXXXXXXXX"),
          num_pages |-> JNull,
          price |-> JNull,
          price_unit |-> JNull,
          quality |-> JStr("fine"),
          sid |-> JStr("FXXXXXXXXXXXXXXXXXXXXXXXXXXXXXXXXX"),
          status |-> JStr("queued"),
          to |-> JStr("+15558675310"),
          duration |-> JNull,
          links |-> JObj([media |-> JStr("https://fax.twilio.com/v1/Faxes/FXXXXXXXXXXXXXXXXXXXXXXXXXXXXXXXXX/Media")]),
          url |-> JStr("https://fax.twilio.com/v1/Faxes/FXXXXXXXXXXXXXXXXXXXXXXXXXXXXXXXXX")])
getResponseJSON == With(sendResponseJSON, "status", JStr("delivered"))
deleteResponseJSON ==
    With(With(With(sendResponseJSON, "status", JStr("canceled")), "quality", JNull),
         "media_url", JNull)
\* a fax that was delivered: the members that are null until then have values
completedFaxJSON ==
    With(With(With(With(With(sendResponseJSON, "status", JStr("delivered")),
                             "duration", JNum(12)), "num_pages", JNum(3)),
                   "price", JStr("-0.0150")), "price_unit", JStr("USD"))
listResponseJSON ==
    JObj([faxes |-> JArr(<<With(sendResponseJSON, "quality", JNull)>>),
          meta |-> JObj([first_page_url |-> JStr("https://fax.twilio.com/v1/Faxes?PageSize=50&Page=0"),
                         key |-> JStr("faxes"),
                         next_page_url |-> JNull,
                         page |-> JNum(0),
                         page_size |-> JNum(50),
                         previous_page_url |-> JNull,
                         url |-> JStr("https://fax.twilio.com/v1/Faxes?PageSize=50&Page=0")])])

Bodies ==
    {errorResponseJSON,
     With(errorResponseJSON, "status", JNum(500)),
     Without(errorResponseJSON, "status"),
     With(errorResponseJSON, "code", JStr("1228")),
     With(errorResponseJSON, "message", JNull),
     sendResponseJSON, getResponseJSON, deleteResponseJSON, listResponseJSON,
     completedFaxJSON,
     With(sendResponseJSON, "num_pages", JStr("3")),
     With(sendResponseJSON, "duration", JFrac),
     With(sendResponseJSON, "date_created", JStr("yesterday")),
     JObj(<< >>), JArr(<< >>), JNull, JBad, JEmpty}

StatusCodes == {200, 201, 202, 204, 403, 404, 409, 500}

\* what the transport does with a request
Outcomes ==
    {[kind |-> "error", err |-> e] : e \in NetErrors}
    \cup {[kind |-> "truncated", StatusCode |-> st] : st \in StatusCodes}
    \cup {[kind |-> "response", StatusCode |-> st, Body |-> b] : st \in StatusCodes, b \in Bodies}

(***************************************************************************)
(* The state machine.                                                      *)
(***************************************************************************)
Callers == {1, 2}
\* the callers that use the client one call after the other
Sequential == {1}

Idle == [pc |-> "idle", op |-> "", args |-> << >>, req |-> NoRequest, out |-> NoOutcome,
         trace |-> << >>, ret |-> NoReturn]

Init ==
    /\ \E v \in CallerSendOpts :
         heap = [a \in OptsAddrs |-> IF a = "DefaultSendOpts" THEN DefaultSendOptsValue ELSE v]
    /\ \E sid \in AccountSIDs, tok \in AuthTokens, so \in VarArgs(Pointers) :
         c = NewClient(sid, tok, so)
    /\ call = [p \in Callers |-> Idle]

\* caller p calls c.Get(sid)
CallGet(p) ==
    /\ call[p].pc = "idle"
    /\ \E sid \in SIDs, out \in Outcomes :
         call' = [call EXCEPT ![p] = Get(c, sid, out)]
    /\ UNCHANGED <<heap, c>>

\* caller p calls c.Send(to, from, mediaURL, sendOpts...)
CallSend(p) ==
    /\ call[p].pc = "idle"
    /\ \E to \in Tos, from \in Froms, mediaURL \in MediaURLs, so \in VarArgs(Pointers),
          out \in Outcomes :
         LET opts == SendOptsOf(c, so)
             passed == SendPre(c, to, from, mediaURL) = NoErr
         IN /\ call' = [call EXCEPT ![p] = Send(c, heap, to, from, mediaURL, so, out)]
            /\ c' = IF passed THEN SendClient(c, opts) ELSE c
            /\ heap' = IF passed /\ opts # Nil THEN urlEncodeReceiver(heap, opts) ELSE heap

\* caller p calls c.List(listOpts...)
CallList(p) ==
    /\ call[p].pc = "idle"
    /\ \E lo \in VarArgs(ListOptsValues), out \in Outcomes :
         call' = [call EXCEPT ![p] = List(c, lo, out)]
    /\ UNCHANGED <<heap, c>>

\* caller p calls c.Cancel(sid)
CallCancel(p) ==
    /\ call[p].pc = "idle"
    /\ \E sid \in SIDs, out \in Outcomes :
         call' = [call EXCEPT ![p] = Cancel(c, sid, out)]
    /\ UNCHANGED <<heap, c>>

\* caller p calls c.do(r) with a request it made itself
CallDo(p) ==
    /\ call[p].pc = "idle"
    /\ \E out \in Outcomes :
         call' = [call EXCEPT ![p] = Do(c, NewRequest("GET", URL(scheme, host, << >>), << >>, NoForm), out)]
    /\ UNCHANGED <<heap, c>>

\* caller p calls so.urlEncode(data) on a SendOpts of its own
CallUrlEncode(p) ==
    /\ call[p].pc = "idle"
    /\ \E so \in AllSendOpts, data \in Accumulators :
         call' = [call EXCEPT ![p] = UrlEncode(so, data)]
    /\ UNCHANGED <<heap, c>>

\* caller p calls lo.urlEncode(data) on a ListOpts of its own
CallListUrlEncode(p) ==
    /\ call[p].pc = "idle"
    /\ \E lo \in AllListOpts, data \in Accumulators :
         call' = [call EXCEPT ![p] = ListUrlEncode(lo, data)]
    /\ UNCHANGED <<heap, c>>

\* caller p builds a client of its own with NewClient
CallNewClient(p) ==
    /\ call[p].pc = "idle"
    /\ \E sid \in AccountSIDs, tok \in AuthTokens, so \in VarArgs(Pointers) :
         call' = [call EXCEPT ![p] = New(sid, tok, so)]
    /\ UNCHANGED <<heap, c>>

\* caller p calls c.buildURL(param).String()
CallBuildURL(p) ==
    /\ call[p].pc = "idle"
    /\ \E param \in SIDs :
         call' = [call EXCEPT ![p] = BuildURL(param)]
    /\ UNCHANGED <<heap, c>>

\* caller p has the result and is ready for its next call
Done(p) ==
    /\ call[p].pc = "done"
    /\ call' = [call EXCEPT ![p] = Idle]
    /\ UNCHANGED <<heap, c>>

Step(p) ==
    \/ CallGet(p) \/ CallSend(p) \/ CallList(p) \/ CallCancel(p) \/ CallDo(p)
    \/ CallUrlEncode(p) \/ CallListUrlEncode(p) \/ CallNewClient(p) \/ CallBuildURL(p)
    \/ Done(p)

Next == \E p \in Sequential : Step(p)

Spec == Init /\ [][Next]_vars

(***************************************************************************)
(* Two callers that use the client at the same time.  A Send is three      *)
(* steps here, each a stretch of Client.Send between two points where the  *)
(* other goroutine can run: the checks and the choice of the options, the  *)
(* encoding of the options into the request, and Client.do.                *)
(***************************************************************************)
ConcurrentAddrs == {"DefaultSendOpts", "optsA", "optsB"}
ConcurrentOutcomes ==
    {[kind |-> "error", err |-> [kind |-> "net", what |-> "Client.Timeout exceeded"]],
     [kind |-> "truncated", StatusCode |-> 201],
     [kind |-> "response", StatusCode |-> 201, Body |-> sendResponseJSON],
     [kind |-> "response", StatusCode |-> 403, Body |-> errorResponseJSON]}

InitConcurrent ==
    /\ \E a \in CallerSendOpts, b \in CallerSendOpts :
         heap = [x \in ConcurrentAddrs |->
                    IF x = "DefaultSendOpts" THEN DefaultSendOptsValue
                    ELSE IF x = "optsA" THEN a ELSE b]
    /\ c = NewClient("ACXXXXXXXXXXXXXXXXXXXXXXXXXXXXXXXX", "ATXXXXXXXXXXXXXXXXXXXXXXXXXXXXXXXX",
                     << >>)
    /\ call = [p \in Callers |-> Idle]

\* Client.Send, from the call to the choice of opts
SendBegin(p) ==
    /\ call[p].pc = "idle"
    /\ \E to \in Tos, so \in VarArgs({"optsA", "optsB"}) :
         LET from == "+15017122661"
             mediaURL == "https://www.twilio.com/docs/documents/25/justthefaxmaam.pdf"
             args == [to |-> to, from |-> from, mediaURL |-> mediaURL, sendOpts |-> so]
             e == SendPre(c, to, from, mediaURL)
             opts == SendOptsOf(c, so)
         IN IF e # NoErr
            THEN /\ call' = [call EXCEPT ![p] = Early("Send", args, Return(NilValue, e))]
                 /\ c' = c
            ELSE /\ call' = [call EXCEPT ![p] =
                               [pc |-> "opts", op |-> "Send", args |-> args, opts |-> opts,
                                req |-> NoRequest, out |-> NoOutcome, trace |-> << >>,
                                ret |-> NoReturn]]
                 /\ c' = SendClient(c, opts)
    /\ UNCHANGED heap

\* Client.Send, from buildURL to the Content-Type: opts.urlEncode reads the SendOpts
SendEncode(p) ==
    /\ call[p].pc = "opts"
    /\ call[p].opts # Nil
    /\ call' = [call EXCEPT ![p].pc = "request",
                            ![p].req = SendRequest(heap, call[p].args.to, call[p].args.from,
                                                   call[p].args.mediaURL, call[p].opts)]
    /\ heap' = urlEncodeReceiver(heap, call[p].opts)
    /\ UNCHANGED c

\* Client.Send, from c.do(r) to the return
SendDo(p) ==
    /\ call[p].pc = "request"
    /\ \E out \in ConcurrentOutcomes :
         call' = [call EXCEPT ![p] = Resource("Send", call[p].args, do(c, call[p].req, out))]
    /\ UNCHANGED <<heap, c>>

NextConcurrent == \E p \in Callers : SendBegin(p) \/ SendEncode(p) \/ SendDo(p) \/ Done(p)

SpecConcurrent == InitConcurrent /\ [][NextConcurrent]_vars

(***************************************************************************)
(* Callers that build clients of their own and assign to the fields of the *)
(* SendOpts their client points to (Client.SendOpts is an exported field   *)
(* of pointer type, DefaultSendOpts an exported variable).                 *)
(***************************************************************************)
InitShared ==
    /\ \E v \in CallerSendOpts :
         heap = [a \in OptsAddrs |-> IF a = "DefaultSendOpts" THEN DefaultSendOptsValue ELSE v]
    /\ c = NewClient("ACXXXXXXXXXXXXXXXXXXXXXXXXXXXXXXXX", "ATXXXXXXXXXXXXXXXXXXXXXXXXXXXXXXXX",
                     << >>)
    /\ call = [p \in Callers |-> Idle]

\* caller p builds a client with NewClient and keeps it
BuildClient(p) ==
    /\ call[p].pc = "idle"
    /\ \E so \in VarArgs(Pointers) :
         call' = [call EXCEPT ![p] =
                     New("ACXXXXXXXXXXXXXXXXXXXXXXXXXXXXXXXX",
                         "ATXXXXXXXXXXXXXXXXXXXXXXXXXXXXXXXX", so)]
    /\ UNCHANGED <<heap, c>>

\* caller p assigns to fields of its client's options: client.SendOpts.Quality = q,
\* client.SendOpts.StoreMedia = sm, client.SendOpts.TTLMinutes = ttl
WriteOpts(p) ==
    /\ call[p].pc = "done" /\ call[p].op = "NewClient"
    /\ call[p].ret.val.v.SendOpts # Nil
    /\ \E q \in Qualities, sm \in BOOLEAN, ttl \in TTLs :
         heap' = [heap EXCEPT ![call[p].ret.val.v.SendOpts] =
                     [@ EXCEPT !.Quality = q, !.StoreMedia = sm, !.TTLMinutes = ttl]]
    /\ UNCHANGED <<c, call>>

NextShared == \E p \in Callers : BuildClient(p) \/ WriteOpts(p) \/ Done(p)

SpecShared == InitShared /\ [][NextShared]_vars

(***************************************************************************)
(* Properties.                                                             *)
(***************************************************************************)
Returned(p) == call[p].pc = "done" /\ call[p].ret.kind = "return"
CredentialsSet == c.accountSID # "" /\ c.authToken # ""

\* C1: whatever the operation (Get, Send, List, Cancel) and its arguments, a call on
\* a client whose account SID or auth token is empty returns ErrNotAuthenticated:
\* the credential check comes before the checks of SID, to, from and media URL.
C1_NotAuthenticatedFirst ==
    \A p \in Callers :
        (call[p].pc = "done" /\ call[p].op \in {"Get", "Send", "List", "Cancel"}
                             /\ (c.accountSID = "" \/ c.authToken = ""))
            => /\ call[p].ret.kind = "return"
               /\ call[p].ret.err = ErrNotAuthenticated

\* C1 witness: a Send with no to, from and media URL on a client without auth token
C1_Witness ==
    \E p \in Callers :
        /\ Returned(p) /\ call[p].op = "Send"
        /\ call[p].args.to = "" /\ call[p].args.from = "" /\ call[p].args.mediaURL = ""
        /\ c.accountSID # "" /\ c.authToken = ""
        /\ call[p].ret.err = ErrNotAuthenticated

\* C2: with both credentials set, Send reports the first empty argument in the order
\* to, from, media URL.
C2_SendArgumentOrder ==
    \A p \in Callers :
        (call[p].pc = "done" /\ call[p].op = "Send" /\ CredentialsSet)
            => LET a == call[p].args
                   r == call[p].ret
               IN /\ a.to = "" => r = Return(NilValue, ErrMissingToNumber)
                  /\ (a.to # "" /\ a.from = "") => r = Return(NilValue, ErrMissingFromNumber)
                  /\ (a.to # "" /\ a.from # "" /\ a.mediaURL = "")
                        => r = Return(NilValue, ErrMissingMediaURL)

\* C2 witness: all three arguments empty, and the error is the one of the to number
C2_Witness ==
    \E p \in Callers :
        /\ Returned(p) /\ call[p].op = "Send" /\ CredentialsSet
        /\ call[p].args.to = "" /\ call[p].args.from = "" /\ call[p].args.mediaURL = ""
        /\ call[p].ret.err = ErrMissingToNumber

\* C3: with both credentials set, Get and Cancel with an empty SID return
\* ErrMissingSID (Get with a nil resource), and with a non-empty SID they never
\* return ErrMissingSID.
C3_MissingSID ==
    \A p \in Callers :
        (call[p].pc = "done" /\ call[p].op \in {"Get", "Cancel"} /\ CredentialsSet)
            => IF call[p].args.sid = << >>
               THEN call[p].ret = Return(NilValue, ErrMissingSID)
               ELSE call[p].ret.err # ErrMissingSID

\* C3 witness: Get("") on a client with credentials
C3_Witness ==
    \E p \in Callers :
        /\ Returned(p) /\ call[p].op = "Get" /\ CredentialsSet
        /\ call[p].args.sid = << >>
        /\ call[p].ret.val.isNil /\ call[p].ret.err = ErrMissingSID

\* C4: a call that returns a precondition error has built no request, and the
\* transport was not called during it.
C4_PreconditionBeforeIO ==
    \A p \in Callers :
        (Returned(p) /\ call[p].ret.err \in PreconditionErrors)
            => /\ call[p].req.isNil
               /\ call[p].out = NoOutcome
               /\ \A i \in 1..Len(call[p].trace) :
                      call[p].trace[i] \notin {"http.NewRequest", "HTTPClient.Do"}

\* C4 witness: Send("", from, mediaURL) returned ErrMissingToNumber without a request
C4_Witness ==
    \E p \in Callers :
        /\ Returned(p) /\ call[p].op = "Send"
        /\ call[p].args.to = "" /\ call[p].args.from # "" /\ call[p].args.mediaURL # ""
        /\ call[p].ret.err = ErrMissingToNumber
        /\ call[p].req.isNil /\ call[p].trace = << >>

\* a call during which the transport answered with a status and a body that was read
Answered(p) == call[p].pc = "done" /\ call[p].out.kind = "response"

\* the member key of the JSON object m as an integer or a string, zero when it is
\* absent or null
NumberOf(m, key) == IF key \in DOMAIN m /\ m[key].t = "num" THEN m[key].n ELSE 0
StringOf(m, key) == IF key \in DOMAIN m /\ m[key].t = "str" THEN m[key].s ELSE ""

\* the body is a JSON object whose members code, message, more_info and status, where
\* present and not null, are two numbers and two strings
ErrorShaped(b) ==
    /\ b.t = "obj"
    /\ \A k \in {"code", "status"} \cap DOMAIN b.m : b.m[k].t \in {"num", "null"}
    /\ \A k \in {"message", "more_info"} \cap DOMAIN b.m : b.m[k].t \in {"str", "null"}

\* C5: for a response whose body was read, what do returns is decided by the HTTP
\* status alone: under 200 and 201 the body as received and no error; under every
\* other status (202 and 204 too) no body and an error, whatever the body holds.
C5_StatusDecides ==
    \A p \in Callers :
        (Answered(p) /\ call[p].op = "do")
            => IF call[p].out.StatusCode \in {200, 201}
               THEN call[p].ret = Return(Bytes(call[p].out.Body), NoErr)
               ELSE call[p].ret.val = NilBytes /\ call[p].ret.err # NoErr

\* C5 witness: a 204 that carries a well-formed fax object is an error without body
C5_Witness ==
    \E p \in Callers :
        /\ Answered(p) /\ call[p].op = "do"
        /\ call[p].out.StatusCode = 204 /\ call[p].out.Body = sendResponseJSON
        /\ call[p].ret.val = NilBytes /\ call[p].ret.err # NoErr

C7_StatusIsHTTPStatus ==
    \A p \in Callers :
        (Answered(p) /\ call[p].ret.err.kind = "ErrorResponse")
            => call[p].ret.err.Status = call[p].out.StatusCode

\* C8: under a status other than 200 and 201, a body that does not decode as the
\* error shape makes the operation return the decode error itself, which is no
\* ErrorResponse, and no payload.
C8_ErrorBodyDecodeError ==
    \A p \in Callers :
        (Answered(p) /\ call[p].out.StatusCode \notin {200, 201}
                     /\ ~ErrorShaped(call[p].out.Body) /\ call[p].out.Body.t # "null")
            => /\ call[p].ret.val.isNil
               /\ call[p].ret.err.kind = "json"
               /\ call[p].ret.err = UnmarshalErrorResponse(call[p].out.Body).err
               /\ call[p].out.Body.t \in {"empty", "bad"} => call[p].ret.err = SyntaxError

\* C8 witness: Get answered 404 with a body that is no JSON
C8_Witness ==
    \E p \in Callers :
        /\ Answered(p) /\ call[p].op = "Get"
        /\ call[p].out.StatusCode = 404 /\ call[p].out.Body = JBad
        /\ call[p].ret = Return(NilValue, SyntaxError)

\* C9: under 200 and 201, a body that does not decode as a fax resource makes Get
\* and Send return a nil resource and the decode error, which is no ErrorResponse.
C9_SuccessBodyDecodeError ==
    \A p \in Callers :
        (Answered(p) /\ call[p].op \in {"Get", "Send"}
                     /\ call[p].out.StatusCode \in {200, 201}
                     /\ UnmarshalSendResponse(call[p].out.Body).err # NoErr)
            => /\ call[p].ret.val.isNil
               /\ call[p].ret.err.kind = "json"
               /\ call[p].ret.err = UnmarshalSendResponse(call[p].out.Body).err

\* C9 witness: Send answered 201 with a fax object whose num_pages is a string
C9_Witness ==
    \E p \in Callers :
        /\ Answered(p) /\ call[p].op = "Send"
        /\ call[p].out.StatusCode = 201
        /\ call[p].out.Body = With(sendResponseJSON, "num_pages", JStr("3"))
        /\ call[p].ret = Return(NilValue, UnmarshalTypeError)

\* C10: when HTTPClient.Do fails, the operation returns the error of HTTPClient.Do
\* as it is, which is no ErrorResponse, and neither reads nor decodes a body.
C10_TransportErrorUnchanged ==
    \A p \in Callers :
        (call[p].pc = "done" /\ call[p].out.kind = "error")
            => /\ call[p].ret.kind = "return"
               /\ call[p].ret.val.isNil
               /\ call[p].ret.err = call[p].out.err
               /\ call[p].ret.err.kind # "ErrorResponse"
               /\ \A i \in 1..Len(call[p].trace) :
                      call[p].trace[i] \notin {"ioutil.ReadAll", "json.Unmarshal"}

\* C10 witness: a Send whose request timed out
C10_Witness ==
    \E p \in Callers :
        /\ Returned(p) /\ call[p].op = "Send"
        /\ call[p].out.kind = "error"
        /\ call[p].ret.err = [kind |-> "net", what |-> "Client.Timeout exceeded"]
        /\ Len(call[p].trace) = 3 /\ call[p].trace[3] = "HTTPClient.Do"

\* the operations of the client that a program outside the package can call
Operations == {"Get", "Send", "List", "Cancel"}

\* C11: every call of Get or Send that returns, returns either a resource and no
\* error or no resource and an error: never both, never neither.
C11_ResourceXorError ==
    \A p \in Callers :
        (Returned(p) /\ call[p].op \in {"Get", "Send"})
            => (call[p].ret.val.isNil <=> call[p].ret.err # NoErr)

\* C11 witness: Send answered 201 with a fax object that decodes up to a timestamp
\* that is not RFC 3339; the call returns the error and no resource
C11_Witness ==
    \E p \in Callers :
        /\ Answered(p) /\ call[p].op = "Send"
        /\ call[p].out.StatusCode = 201
        /\ call[p].out.Body = With(sendResponseJSON, "date_created", JStr("yesterday"))
        /\ call[p].ret = Return(NilValue, ParseError)

\* the number of times the call of p called the transport
TransportCalls(p) ==
    Cardinality({i \in 1..Len(call[p].trace) : call[p].trace[i] = "HTTPClient.Do"})

\* the arguments of the call of p pass the checks that precede the request
PassedPreflight(p) ==
    /\ CredentialsSet
    /\ call[p].op \in {"Get", "Cancel"} => call[p].args.sid # << >>
    /\ call[p].op = "Send" =>
          call[p].args.to # "" /\ call[p].args.from # "" /\ call[p].args.mediaURL # ""

ValuesOf(data, key) == IF key \in DOMAIN data THEN data[key] ELSE << >>

\* the values a call added under key, given data before (d0) and after (d) the call
AddedValues(d0, d, key) ==
    SubSeq(ValuesOf(d, key), Len(ValuesOf(d0, key)) + 1, Len(ValuesOf(d, key)))

\* the call only appended: what d0 held under key opens what d holds under it
Kept(d0, d, key) ==
    /\ Len(ValuesOf(d, key)) >= Len(ValuesOf(d0, key))
    /\ SubSeq(ValuesOf(d, key), 1, Len(ValuesOf(d0, key))) = ValuesOf(d0, key)

\* the canonical label of a quality, "" for a value that is none of the three
QualityLabel(q) ==
    CASE q = 0 -> "standard" [] q = 1 -> "fine" [] q = 2 -> "superfine" [] OTHER -> ""

\* a call of SendOpts.urlEncode on its own that has returned
Encoded(p) == call[p].pc = "done" /\ call[p].op = "urlEncode"

\* C13: for every SendOpts, urlEncode adds under Quality exactly one value, the label
\* of the quality, under StoreMedia exactly one value, the text true or false, and
\* under Ttl the decimal TTLMinutes if TTLMinutes > 0 and nothing if it is zero or
\* negative; what the accumulator held under these keys stays.
C13_QualityStoreMediaTtl ==
    \A p \in Callers :
        Encoded(p)
            => LET so == call[p].args.so
                   d0 == call[p].args.data
                   d == call[p].ret.val
               IN /\ \A k \in {"Quality", "StoreMedia", "Ttl"} : Kept(d0, d, k)
                  /\ AddedValues(d0, d, "Quality") = <<QualityLabel(so.Quality)>>
                  /\ AddedValues(d0, d, "StoreMedia")
                        = <<IF so.StoreMedia THEN "true" ELSE "false">>
                  /\ so.TTLMinutes > 0
                        => AddedValues(d0, d, "Ttl") = <<ToString(so.TTLMinutes)>>
                  /\ so.TTLMinutes = 1 => AddedValues(d0, d, "Ttl") = <<"1">>
                  /\ so.TTLMinutes <= 0 => AddedValues(d0, d, "Ttl") = << >>
                  /\ (so.TTLMinutes <= 0 /\ "Ttl" \notin DOMAIN d0) => "Ttl" \notin DOMAIN d

\* C13 witness: a SendOpts with TTLMinutes 0 encoded into an empty url.Values
C13_Witness ==
    \E p \in Callers :
        /\ Encoded(p)
        /\ call[p].args.data = EmptyValues
        /\ call[p].args.so.TTLMinutes = 0 /\ ~call[p].args.so.StoreMedia
        /\ call[p].ret.val["StoreMedia"] = <<"false">>
        /\ "Quality" \in DOMAIN call[p].ret.val
        /\ "Ttl" \notin DOMAIN call[p].ret.val

\* the keys SendOpts.urlEncode may write
SendOptsKeys ==
    {"Quality", "SipAuthPassword", "SipAuthUsername", "StatusCallback", "StoreMedia", "Ttl"}

\* the value added under key by an encoder for the string field value: the value
\* itself if it is not empty, nothing if it is
IfNotEmpty(value) == IF value # "" THEN <<value>> ELSE << >>

\* C14: for every SendOpts, urlEncode adds SIPAuthPassword under SipAuthPassword,
\* SIPAuthUsername under SipAuthUsername and StatusCallback under StatusCallback,
\* each if and only if the field is not empty, and writes under no key other than
\* the six wire keys.
C14_OptionalSendKeys ==
    \A p \in Callers :
        Encoded(p)
            => LET so == call[p].args.so
                   d0 == call[p].args.data
                   d == call[p].ret.val
               IN /\ \A k \in DOMAIN d0 : Kept(d0, d, k)
                  /\ AddedValues(d0, d, "SipAuthPassword") = IfNotEmpty(so.SIPAuthPassword)
                  /\ AddedValues(d0, d, "SipAuthUsername") = IfNotEmpty(so.SIPAuthUsername)
                  /\ AddedValues(d0, d, "StatusCallback") = IfNotEmpty(so.StatusCallback)
                  /\ \A k \in DOMAIN d \ SendOptsKeys : k \in DOMAIN d0 /\ d[k] = d0[k]
                  /\ \A k \in {"SipAuthPassword", "SipAuthUsername", "StatusCallback"} :
                        k \in DOMAIN d <=> AddedValues(d0, d, k) # << >>

\* C14 witness: a SendOpts with a SIP username and neither password nor callback
C14_Witness ==
    \E p \in Callers :
        /\ Encoded(p)
        /\ call[p].args.so.SIPAuthUsername = "username"
        /\ call[p].args.so.SIPAuthPassword = "" /\ call[p].args.so.StatusCallback = ""
        /\ call[p].ret.val["SipAuthUsername"] = <<"username">>
        /\ "SipAuthPassword" \notin DOMAIN call[p].ret.val
        /\ "StatusCallback" \notin DOMAIN call[p].ret.val

\* a call of ListOpts.urlEncode on its own that has returned
ListEncoded(p) == call[p].pc = "done" /\ call[p].op = "ListOpts.urlEncode"

\* the RFC 3339 text added for a date filter: nothing for the zero time
IfNotZero(tm) ==
    CASE tm = Date(1, 1, 1, 0, 0, 0) -> << >>
      [] tm = Date(2015, 7, 30, 20, 0, 0) -> <<"2015-07-30T20:00:00Z">>
      [] tm = Date(2017, 4, 1, 0, 0, 0) -> <<"2017-04-01T00:00:00Z">>

\* C15: for every ListOpts, urlEncode adds DateCreatedAfter and DateCreatedOnOrBefore
\* each if and only if that time is not the zero time, as RFC 3339 text, From and To
\* each if and only if the field is not empty, and nothing else; for the empty
\* ListOpts it leaves the accumulator as it was.
C15_ListKeys ==
    \A p \in Callers :
        ListEncoded(p)
            => LET lo == call[p].args.lo
                   d0 == call[p].args.data
                   d == call[p].ret.val
               IN /\ \A k \in DOMAIN d0 : Kept(d0, d, k)
                  /\ AddedValues(d0, d, "DateCreatedAfter") = IfNotZero(lo.DateCreatedAfter)
                  /\ AddedValues(d0, d, "DateCreatedOnOrBefore")
                        = IfNotZero(lo.DateCreatedOnOrBefore)
                  /\ AddedValues(d0, d, "From") = IfNotEmpty(lo.From)
                  /\ AddedValues(d0, d, "To") = IfNotEmpty(lo.To)
                  /\ \A k \in DOMAIN d \ {"DateCreatedAfter", "DateCreatedOnOrBefore",
                                            "From", "To"} :
                        k \in DOMAIN d0 /\ d[k] = d0[k]
                  /\ \A k \in DOMAIN d \ DOMAIN d0 : d[k] # << >>
                  /\ lo = ListOptsValue(Date(1, 1, 1, 0, 0, 0), Date(1, 1, 1, 0, 0, 0), "", "")
                        => d = d0

\* C15 witness: the empty ListOpts encoded into an empty url.Values leaves it empty
C15_Witness ==
    \E p \in Callers :
        /\ ListEncoded(p)
        /\ call[p].args.lo = ListOptsValue(ZeroTime, ZeroTime, "", "")
        /\ call[p].args.data = EmptyValues
        /\ DOMAIN call[p].ret.val = {}
\* the text a percent-encoded text of the model stands for
Unescape(str) ==
    IF \E e \in EscapeTable : e[2] = str
    THEN (CHOOSE e \in EscapeTable : e[2] = str)[1]
    ELSE str

\* the values a form body holds under key, decoded, in the order of the body
RECURSIVE FormValues(_, _)
FormValues(pairs, key) ==
    IF pairs = << >> THEN << >>
    ELSE (IF Head(pairs)[1] = key THEN <<Unescape(Head(pairs)[2])>> ELSE << >>)
             \o FormValues(Tail(pairs), key)
FormKeys(pairs) == {pairs[i][1] : i \in 1..Len(pairs)}

\* what the wire holds under key for the SendOpts so, by the rules of the encoder
WireOpts(so, key) ==
    CASE key = "Quality" -> <<QualityLabel(so.Quality)>>
      [] key = "SipAuthPassword" -> IfNotEmpty(so.SIPAuthPassword)
      [] key = "SipAuthUsername" -> IfNotEmpty(so.SIPAuthUsername)
      [] key = "StatusCallback" -> IfNotEmpty(so.StatusCallback)
      [] key = "StoreMedia" -> <<IF so.StoreMedia THEN "true" ELSE "false">>
      [] key = "Ttl" -> IF so.TTLMinutes > 0 THEN <<ToString(so.TTLMinutes)>> ELSE << >>

\* the form body pairs holds the options so and no other option
EncodesOpts(pairs, so) == \A k \in SendOptsKeys : FormValues(pairs, k) = WireOpts(so, k)

\* a call of p that handed a request to the transport
Sent(p) == call[p].pc = "done" /\ ~call[p].req.isNil /\ call[p].out # NoOutcome

\* C16: the body of a Send with a per-call SendOpts holds the options of that
\* SendOpts and none of the client's; the body of a Send without one holds the
\* options the client has before the call; and no call changes the client, its
\* options pointer or the contents of any SendOpts.
C16_OverrideForOneCall ==
    [][/\ \A p \in Callers :
            (call[p].pc = "idle" /\ call'[p].pc = "done" /\ call'[p].op = "Send"
                                 /\ ~call'[p].req.isNil)
                => LET so == call'[p].args.sendOpts
                       pairs == call'[p].req.Body.pairs
                   IN IF Len(so) > 0
                      THEN so[1] \in DOMAIN heap /\ EncodesOpts(pairs, heap[so[1]])
                      ELSE c.SendOpts \in DOMAIN heap
                           /\ EncodesOpts(pairs, heap[c.SendOpts])
       /\ c' = c
       /\ heap' = heap]_vars

\* C16 witness: a Send with its own SendOpts on a client that holds the default
\* options; the body has the quality and the TTL of the call, not of the client
C16_Witness ==
    \E p \in Callers :
        /\ Sent(p) /\ call[p].op = "Send"
        /\ call[p].args.sendOpts = <<"optsA">>
        /\ c.SendOpts = "DefaultSendOpts"
        /\ heap["DefaultSendOpts"].Quality = QualityFine
        /\ heap["optsA"].Quality = QualitySuperfine
        /\ FormValues(call[p].req.Body.pairs, "Quality") = <<"superfine">>
        /\ FormValues(call[p].req.Body.pairs, "StoreMedia") = <<"false">>
        /\ FormValues(call[p].req.Body.pairs, "Ttl") # << >>

\* C17: the client NewClient returns holds the account SID and the auth token it
\* was given; built without options, its options are the default ones: quality
\* fine, StoreMedia true, no SIP credentials, no callback, no TTL; built with
\* options, its options are the ones it was given.
C17_NewClient ==
    \A p \in Callers :
        (call[p].pc = "done" /\ call[p].op = "NewClient")
            => LET a == call[p].args
                   cl == call[p].ret.val.v
               IN /\ ~call[p].ret.val.isNil
                  /\ cl.accountSID = a.accountSID
                  /\ cl.authToken = a.authToken
                  /\ Len(a.sendOpts) = 0
                        => /\ cl.SendOpts = "DefaultSendOpts"
                           /\ heap[cl.SendOpts] = SendOptsValue(1, "", "", "", TRUE, 0)
                           /\ QualityLabel(heap[cl.SendOpts].Quality) = "fine"
                  /\ Len(a.sendOpts) > 0 => cl.SendOpts = a.sendOpts[1]

\* C17 witness: NewClient with both credentials and no options
C17_Witness ==
    \E p \in Callers :
        /\ call[p].pc = "done" /\ call[p].op = "NewClient"
        /\ call[p].args.accountSID # "" /\ call[p].args.authToken # ""
        /\ call[p].args.sendOpts = << >>
        /\ heap[call[p].ret.val.v.SendOpts].StoreMedia

\* a resource id made of segments none of which is empty, "." or ".."
Ordinary(sid) == sid # << >> /\ \A i \in 1..Len(sid) : sid[i] \notin {"", ".", ".."}

C20_BasicAuth ==
    \A p \in Callers :
        (call[p].pc = "done" /\ call[p].out # NoOutcome)
            => /\ ~call[p].req.isNil
               /\ call[p].req.Auth
                    = [set |-> TRUE, username |-> c.accountSID, password |-> c.authToken]
               /\ call[p].op \in Operations
                    => /\ call[p].req.Auth.username # ""
                       /\ call[p].req.Auth.password # ""

\* C20 witness: a List that reached the transport with both credentials
C20_Witness ==
    \E p \in Callers :
        /\ Sent(p) /\ call[p].op = "List"
        /\ call[p].req.Auth.set
        /\ call[p].req.Auth.username = "ACXXXXXXXXXXXXXXXXXXXXXXXXXXXXXXXX"
        /\ call[p].req.Auth.password = "ATXXXXXXXXXXXXXXXXXXXXXXXXXXXXXXXX"
\* the names of the members of a fax object that hold strings, integers and times
FaxStrings ==
    {"account_sid", "api_version", "status", "sid", "url", "direction", "to", "from",
     "quality", "price_unit", "price", "media_url"}
FaxInts == {"duration", "num_pages"}
FaxTimes == {"date_created", "date_updated"}

\* the RFC 3339 texts of the model
RFC3339Texts == {"0001-01-01T00:00:00Z", "2015-07-30T20:00:00Z", "2017-04-01T00:00:00Z"}

\* the body is a valid fax object: its members, where present and not null, are
\* strings, integers, RFC 3339 texts and, for links, an object with a string media
FaxShaped(b) ==
    /\ b.t = "obj"
    /\ \A k \in FaxStrings \cap DOMAIN b.m : b.m[k].t \in {"str", "null"}
    /\ \A k \in FaxInts \cap DOMAIN b.m : b.m[k].t \in {"num", "null"}
    /\ \A k \in FaxTimes \cap DOMAIN b.m :
          b.m[k].t = "null" \/ (b.m[k].t = "str" /\ b.m[k].s \in RFC3339Texts)
    /\ "links" \in DOMAIN b.m
          => \/ b.m["links"].t = "null"
             \/ /\ b.m["links"].t = "obj"
                /\ "media" \in DOMAIN b.m["links"].m
                      => b.m["links"].m["media"].t \in {"str", "null"}

\* the instant an RFC 3339 text of the model denotes; the zero time for a member
\* that is absent or null
TimeOf(m, key) ==
    IF key \notin DOMAIN m \/ m[key].t # "str" THEN Date(1, 1, 1, 0, 0, 0)
    ELSE CASE m[key].s = "2015-07-30T20:00:00Z" -> Date(2015, 7, 30, 20, 0, 0)
           [] m[key].s = "2017-04-01T00:00:00Z" -> Date(2017, 4, 1, 0, 0, 0)
           [] OTHER -> Date(1, 1, 1, 0, 0, 0)

\* C21: when the server answers 200 or 201 with a valid fax object, Get and Send
\* return a resource and no error, and every field of the resource is the member of
\* the body it is tagged with (status "queued" gives Status "queued"); a member that
\* is null or absent leaves its field at the zero value and causes no error.
C21_ResourceEqualsBody ==
    \A p \in Callers :
        (Answered(p) /\ call[p].op \in {"Get", "Send"}
                     /\ call[p].out.StatusCode \in {200, 201}
                     /\ FaxShaped(call[p].out.Body))
            => LET m == call[p].out.Body.m
                   r == call[p].ret
               IN /\ r.kind = "return" /\ r.err = NoErr /\ ~r.val.isNil
                  /\ r.val.v.AccountSid = StringOf(m, "account_sid")
                  /\ r.val.v.APIVersion = StringOf(m, "api_version")
                  /\ r.val.v.Status = StringOf(m, "status")
                  /\ r.val.v.SID = StringOf(m, "sid")
                  /\ r.val.v.URL = StringOf(m, "url")
                  /\ r.val.v.Direction = StringOf(m, "direction")
                  /\ r.val.v.To = StringOf(m, "to")
                  /\ r.val.v.From = StringOf(m, "from")
                  /\ r.val.v.Quality = StringOf(m, "quality")
                  /\ r.val.v.PriceUnit = StringOf(m, "price_unit")
                  /\ r.val.v.Price = StringOf(m, "price")
                  /\ r.val.v.MediaURL = StringOf(m, "media_url")
                  /\ r.val.v.Duration = NumberOf(m, "duration")
                  /\ r.val.v.NumPages = NumberOf(m, "num_pages")
                  /\ r.val.v.DateCreated = TimeOf(m, "date_created")
                  /\ r.val.v.DateUpdated = TimeOf(m, "date_updated")
                  /\ r.val.v.Links.Media
                        = IF "links" \in DOMAIN m /\ m["links"].t = "obj"
                          THEN StringOf(m["links"].m, "media") ELSE ""
                  /\ StringOf(m, "status") = "queued" => r.val.v.Status = "queued"

\* C21 witness: Send answered 201 with the fax object of the tests, whose price,
\* price_unit, num_pages and duration are null
C21_Witness ==
    \E p \in Callers :
        /\ Answered(p) /\ call[p].op = "Send"
        /\ call[p].out.StatusCode = 201 /\ call[p].out.Body = sendResponseJSON
        /\ call[p].ret.err = NoErr
        /\ call[p].ret.val.v.Status = "queued"
        /\ call[p].ret.val.v.Price = "" /\ call[p].ret.val.v.NumPages = 0
Built(p) ==
    /\ call[p].op = "Send" /\ ~call[p].req.isNil
    /\ Len(call[p].args.sendOpts) > 0

\* the request body of every Send with options of its own holds these options, and
\* not the options of another caller's Send where the two differ on the wire
OwnOptions ==
    \A p \in Callers :
        Built(p)
            => LET own == call[p].args.sendOpts[1]
                   pairs == call[p].req.Body.pairs
               IN /\ own \in DOMAIN heap
                  /\ EncodesOpts(pairs, heap[own])
                  /\ \A q \in Callers \ {p} :
                        (call[q].op = "Send" /\ Len(call[q].args.sendOpts) > 0
                           /\ \E k \in SendOptsKeys :
                                 WireOpts(heap[call[q].args.sendOpts[1]], k)
                                     # WireOpts(heap[own], k))
                            => ~EncodesOpts(pairs, heap[call[q].args.sendOpts[1]])

\* C23: when two callers run Send on one client at the same time, each with a
\* SendOpts of its own, then after every step of every interleaving each request
\* body holds the options of its own call and not those of the other, and no step
\* changes a field of the client or of a SendOpts.
C23_ConcurrentSends ==
    [][OwnOptions' /\ c' = c /\ heap' = heap]_vars

\* C23 witness: both callers are inside Send, each past the encoding of its own
\* options, which differ
C23_Witness ==
    /\ call[1].pc = "request" /\ call[2].pc = "request"
    /\ call[1].args.sendOpts = <<"optsA">> /\ call[2].args.sendOpts = <<"optsB">>
    /\ heap["optsA"].Quality # heap["optsB"].Quality
    /\ FormValues(call[1].req.Body.pairs, "Quality")
          = <<QualityLabel(heap["optsA"].Quality)>>
    /\ FormValues(call[2].req.Body.pairs, "Quality")
          = <<QualityLabel(heap["optsB"].Quality)>>

\* C24: a call of Get or Send, whether it succeeds or fails, and however it fails,
\* leaves the client (account SID, auth token, transport handle, options pointer)
\* and the contents of every SendOpts (the client's, DefaultSendOpts, the one passed
\* as argument) as they were; what it builds is the request of the call.
C24_GetSendFrame ==
    [][\A p \in Callers :
          (call[p].pc = "idle" /\ call'[p].pc = "done" /\ call'[p].op \in {"Get", "Send"})
              => /\ c'.accountSID = c.accountSID
                 /\ c'.authToken = c.authToken
                 /\ c'.HTTPClient = c.HTTPClient
                 /\ c'.SendOpts = c.SendOpts
                 /\ \A a \in DOMAIN heap : heap'[a] = heap[a]
                 /\ DOMAIN heap' = DOMAIN heap
                 /\ \A q \in Callers \ {p} : call'[q] = call[q]]_vars

\* C24 witness: a Send with a SendOpts of negative TTLMinutes as argument that failed
\* with an ErrorResponse; the SendOpts still has the negative TTLMinutes
C24_Witness ==
    \E p \in Callers :
        /\ Answered(p) /\ call[p].op = "Send"
        /\ call[p].args.sendOpts = <<"optsA">>
        /\ call[p].ret.err.kind = "ErrorResponse"
        /\ heap["optsA"].TTLMinutes < 0
        /\ c.SendOpts = "DefaultSendOpts"
\* C25: a Send that passes the checks of its arguments returns: it hands its
\* request to the transport or returns an error, whatever options pointer the client
\* was built with and whatever options pointer the call is given (none, one that is
\* not nil, nil); it never dereferences a nil options pointer.
C25_OptionsNeverNil ==
    \A p \in Callers :
        (call[p].pc = "done" /\ call[p].op = "Send" /\ PassedPreflight(p))
            => /\ call[p].ret.kind = "return"
               /\ Sent(p) \/ call[p].ret.err # NoErr

\* C26: the request of a Get with a SID that is not empty has the path
\* /v1/Faxes/<sid>, the SID being the one segment after /v1/Faxes: never the path
\* /v1/Faxes of the collection, never a path that does not start with /v1/Faxes.
C26_SIDIsFinalSegment ==
    \A p \in Callers :
        (Sent(p) /\ call[p].op = "Get" /\ call[p].args.sid # << >>)
            => LET path == call[p].req.URL.Path IN
               /\ Len(path) = 3
               /\ path[1] = "v1" /\ path[2] = "Faxes"
               /\ <<path[3]>> = call[p].args.sid

\* the client caller p built without options and still holds
NoOptions(p) ==
    /\ call[p].pc = "done" /\ call[p].op = "NewClient"
    /\ call[p].args.sendOpts = << >>

\* every client built without options points to the SendOpts DefaultSendOpts points
\* to, so its options are the contents of DefaultSendOpts and those of every other
\* such client
SharedDefault ==
    /\ c.SendOpts = "DefaultSendOpts"
    /\ \A p \in Callers :
          NoOptions(p)
              => /\ call[p].ret.val.v.SendOpts = "DefaultSendOpts"
                 /\ heap[call[p].ret.val.v.SendOpts] = heap["DefaultSendOpts"]
                 /\ heap[call[p].ret.val.v.SendOpts] = heap[c.SendOpts]
                 /\ \A q \in Callers :
                       NoOptions(q) => heap[call[q].ret.val.v.SendOpts]
                                           = heap[call[p].ret.val.v.SendOpts]

\* C27: a client built by NewClient without options holds DefaultSendOpts by
\* reference: after every step its options are the contents of DefaultSendOpts at
\* that moment and equal those of every other such client, and when a step changes
\* the options of one such client it changes those of every other in the same way.
C27_DefaultByReference ==
    [][/\ SharedDefault'
       /\ \A p \in Callers, q \in Callers :
            (NoOptions(p) /\ NoOptions(q) /\ call' = call
               /\ heap'[call[p].ret.val.v.SendOpts] # heap[call[p].ret.val.v.SendOpts])
                => /\ heap'[call[q].ret.val.v.SendOpts] # heap[call[q].ret.val.v.SendOpts]
                   /\ heap'[call[q].ret.val.v.SendOpts] = heap'[call[p].ret.val.v.SendOpts]
                   /\ heap'[c.SendOpts] = heap'[call[p].ret.val.v.SendOpts]]_vars

\* C27 witness: two callers hold clients built without options, the contents of
\* DefaultSendOpts are no longer the ones of the package, and both clients have them
C27_Witness ==
    /\ NoOptions(1) /\ NoOptions(2)
    /\ heap["DefaultSendOpts"].Quality = QualitySuperfine
    /\ ~heap["DefaultSendOpts"].StoreMedia
    /\ heap[call[1].ret.val.v.SendOpts].Quality = QualitySuperfine
    /\ heap[call[2].ret.val.v.SendOpts].Quality = QualitySuperfine
====
